---- MODULE Spec2Model ----
(***************************************************************************)
(* Model of ReflectionBaker (core/src/core/reflection_baker.cpp):          *)
(* ReflectionBaker::bake, ReflectionBaker::cancel and the two process-wide *)
(* atomics sCancel and sBakeInProgress.                                    *)
(*                                                                         *)
(* Probe indices, batch slots and the loop counters i and j are 0-based,   *)
(* as in the source.  The center of probe i is modelled as the point       *)
(* [kind |-> "probe", id |-> i]; identifier.endpointInfluence is modelled  *)
(* extensionally as the set of probe indices whose center it contains.     *)
(***************************************************************************)
EXTENDS Integers, Sequences, FiniteSets, TLC

\* ------------------------------------------------------------------ bounds
MaxProbes == 3
MaxBatchSize == 2
MaxDuration == 2
MaxBakes == 2
MaxCancels == 2

\* ------------------------------------------------------------- value sets
Threads == {1, 2}

Variations == {"Reverb", "StaticSource", "StaticListener"}

SceneTypes == {"Default", "RadeonRays"}

Min(a, b) == IF a < b THEN a ELSE b

Max(a, b) == IF a < b THEN b ELSE a

ProbeCenter(i) == [kind |-> "probe", id |-> i]

EndpointCenter == [kind |-> "endpoint", id |-> 0]

UninitPoint == [kind |-> "uninit", id |-> 0]

\* endpointInfluence.contains(probeBatch[i].influence.center)
Contains(endpointInfluence, i) == i \in endpointInfluence

\* ------------------------------------------------------------ EnergyField
EmptyContent == [src |-> UninitPoint, lst |-> UninitPoint, bins |-> 0]

NullField == [null |-> TRUE]

\* EnergyFieldFactory::create(sceneType, simDuration, order, openCL): a
\* fresh field; on the RadeonRays backend an OpenCLEnergyField whose results
\* live on the device until copyDeviceToHost().
EnergyFieldFactoryCreate(sceneType, duration, i) ==
    [null |-> FALSE, alloc |-> "factory", tag |-> i, duration |-> duration,
     onDevice |-> (sceneType = "RadeonRays"),
     host |-> EmptyContent, dev |-> EmptyContent]

\* make_unique<EnergyField>(bakeDuration, order)
MakeEnergyField(duration, i) ==
    [null |-> FALSE, alloc |-> "bake", tag |-> i, duration |-> duration,
     onDevice |-> FALSE, host |-> EmptyContent, dev |-> EmptyContent]

\* EnergyField::copyFrom: the destination keeps its own duration and takes
\* the source's content, truncated to the shorter of the two.
CopyFrom(dst, src) ==
    [dst EXCEPT !.host = [src.host EXCEPT !.bins = Min(src.host.bins, dst.duration)]]

\* OpenCLEnergyField::copyDeviceToHost
CopyDeviceToHost(field) == [field EXCEPT !.host = field.dev]

\* ReverbEstimator::estimate reads the host buffer of the field.
NoReverb == [set |-> FALSE, src |-> UninitPoint, lst |-> UninitPoint, bins |-> 0]

ReverbEstimate(field) ==
    [set |-> TRUE, src |-> field.host.src, lst |-> field.host.lst, bins |-> field.host.bins]

\* IReflectionSimulator::simulate followed by ThreadPool::process: output
\* field k is filled for the pair (source k or the single source, listener
\* k or the single listener); max(numSources, numListeners) fields are
\* filled.  Results land in the device buffer of an OpenCL field and in the
\* host buffer otherwise.
SimulatedContent(sources, listeners, numSources, numListeners, k, duration) ==
    [src |-> sources[IF numSources = 1 THEN 0 ELSE k],
     lst |-> listeners[IF numListeners = 1 THEN 0 ELSE k],
     bins |-> duration]

\* A slot that holds no field receives nothing.
SimulateField(field, content) ==
    IF field.null THEN field
    ELSE IF field.onDevice THEN [field EXCEPT !.dev = content]
                           ELSE [field EXCEPT !.host = content]

Simulate(fields, sources, listeners, numSources, numListeners, simDuration) ==
    [k \in DOMAIN fields |->
        IF k < Max(numSources, numListeners) /\ numSources >= 1 /\ numListeners >= 1
        THEN SimulateField(fields[k],
                 SimulatedContent(sources, listeners, numSources, numListeners, k, simDuration))
        ELSE fields[k]]

\* ---------------------------------------------- BakedReflectionsData store
\* BakedReflectionsData(identifier, numProbes, hasConvolution, hasParametric)
NewBakedReflectionsData(identifier, numProbes, hasConvolution, hasParametric) ==
    [identifier |-> identifier,
     hasConvolution |-> hasConvolution,
     hasParametric |-> hasParametric,
     reverbs |-> [p \in 0..(numProbes - 1) |-> NoReverb],
     fields |-> [p \in 0..(numProbes - 1) |-> NullField]]

\* BakedReflectionsData::setHasConvolution / setHasParametric: the flags
\* record what the store contains, so a later pass adds to them.
SetHasConvolution(data, hasConvolution) ==
    [data EXCEPT !.hasConvolution = @ \/ hasConvolution]

SetHasParametric(data, hasParametric) ==
    [data EXCEPT !.hasParametric = @ \/ hasParametric]

\* BakedReflectionsData::set(index, reverb) and set(index, energyField)
SetReverb(data, index, reverb) == [data EXCEPT !.reverbs[index] = reverb]

SetEnergyField(data, index, field) == [data EXCEPT !.fields[index] = field]

\* ProbeBatch::hasData, ProbeBatch::addData, ProbeBatch::operator[]
HasData(pb, identifier) ==
    \E k \in 1..Len(pb.data) : pb.data[k].identifier = identifier

AddData(pb, data) == [pb EXCEPT !.data = Append(@, data)]

DataIndex(pb, identifier) ==
    CHOOSE k \in 1..Len(pb.data) : pb.data[k].identifier = identifier

DataOf(pb, identifier) == pb.data[DataIndex(pb, identifier)]


\* ------------------------------------------------------------ bake inputs
\* BakedDataIdentifier: the variation and, for the static variations, the
\* endpointInfluence region (unused and left empty for Reverb).
Identifiers(numProbes) ==
    {[variation |-> "Reverb", endpointInfluence |-> {}]}
    \cup {[variation |-> v, endpointInfluence |-> r] :
            v \in {"StaticSource", "StaticListener"}, r \in SUBSET (0..(numProbes - 1))}

\* The arguments of one bake() call.  assert(bakeConvolution ||
\* bakeParametric) excludes the call with neither output; the durations only
\* matter to a convolution bake.
BakeArgs(numProbes, batchSizes, durations, callbacks) ==
    {a \in [identifier : Identifiers(numProbes),
            bakeConvolution : BOOLEAN,
            bakeParametric : BOOLEAN,
            simDuration : durations,
            bakeDuration : durations,
            bakeBatchSize : batchSizes,
            sceneType : SceneTypes,
            hasCallback : callbacks] :
        /\ a.bakeConvolution \/ a.bakeParametric
        /\ a.simDuration = 1 \/ a.bakeDuration = 1
        /\ ~a.bakeConvolution => (a.simDuration = 1 /\ a.bakeDuration = 1)}

NoArgs ==
    [identifier |-> [variation |-> "Reverb", endpointInfluence |-> {}],
     bakeConvolution |-> FALSE, bakeParametric |-> TRUE,
     simDuration |-> 1, bakeDuration |-> 1, bakeBatchSize |-> 1,
     sceneType |-> "Default", hasCallback |-> FALSE]

\* The scenario of the testable properties: 10 probes, Reverb, batch size 4,
\* CPU backend, parametric output only.
ScenarioArgs ==
    [identifier |-> [variation |-> "Reverb", endpointInfluence |-> {}],
     bakeConvolution |-> FALSE, bakeParametric |-> TRUE,
     simDuration |-> 1, bakeDuration |-> 1, bakeBatchSize |-> 4,
     sceneType |-> "Default", hasCallback |-> TRUE]

ScenarioProbes == 10

EmptyProbeBatch(numProbes) == [numProbes |-> numProbes, data |-> <<>>]

\* -------------------------------------------------------------- variables
VARIABLES
    sCancel,          \* std::atomic<bool> ReflectionBaker::sCancel
    sBakeInProgress,  \* std::atomic<bool> ReflectionBaker::sBakeInProgress
    probeBatch,       \* probeBatch[t]: the ProbeBatch thread t bakes into
    plan,             \* plan[t]: the bake() calls thread t has yet to make
    frame,            \* frame[t]: locals of thread t's bake() call, and its logs
    history,          \* history[t]: identifier and flags of every bake begun on probeBatch[t]
    cancelPc,         \* position of the thread calling cancel()
    cancelsLeft,      \* cancel() calls still to be made
    crashed           \* the process died on undefined behaviour

vars == <<sCancel, sBakeInProgress, probeBatch, plan, frame, history,
          cancelPc, cancelsLeft, crashed>>

IdleFrame ==
    [pc |-> "idle", args |-> NoArgs, bakeBatchSize |-> 1,
     sources |-> [k \in 0..0 |-> UninitPoint],
     listeners |-> [k \in 0..0 |-> UninitPoint],
     energyFields |-> [k \in 0..0 |-> NullField],
     indices |-> [k \in 0..0 |-> 0],
     numValidInBatch |-> 0, i |-> 0, j |-> 0,
     simLog |-> <<>>, progressLog |-> <<>>, dumpLog |-> <<>>, writeLog |-> <<>>,
     entryData |-> NewBakedReflectionsData(NoArgs.identifier, 0, FALSE, FALSE),
     outcome |-> "none", req |-> "none"]

InitShared ==
    /\ sCancel = FALSE
    /\ sBakeInProgress = FALSE
    /\ frame = [t \in Threads |-> IdleFrame]
    /\ history = [t \in Threads |-> {}]
    /\ cancelPc = "idle"
    /\ cancelsLeft = MaxCancels
    /\ crashed = FALSE


\* ------------------------------------------------- bake(): pure fragments
\* Mutant of EffectiveBatchSize: the requested batch size is always kept.
EffectiveBatchSizeAsRequested(sceneType, variation, bakeBatchSize) == bakeBatchSize

\* Lines 101-104: the batch size is forced to 1 unless the backend is
\* RadeonRays or the variation is StaticListener.
EffectiveBatchSize(sceneType, variation, bakeBatchSize) ==
    IF sceneType # "RadeonRays" /\ variation # "StaticListener"
    THEN 1
    ELSE bakeBatchSize

\* Mutant of EnsureData: a store is added without asking hasData.
EnsureDataAlways(pb, identifier, bakeConvolution, bakeParametric) ==
    AddData(pb, NewBakedReflectionsData(identifier, pb.numProbes,
                                        bakeConvolution, bakeParametric))

\* Lines 108-111: create the store for the identifier if the batch has none.
EnsureData(pb, identifier, bakeConvolution, bakeParametric) ==
    IF ~HasData(pb, identifier)
    THEN AddData(pb, NewBakedReflectionsData(identifier, pb.numProbes,
                                             bakeConvolution, bakeParametric))
    ELSE pb

\* Mutant of UpdateFlags: the parametric flag is not updated.
UpdateFlagsConvolutionOnly(pb, identifier, bakeConvolution, bakeParametric) ==
    [pb EXCEPT !.data[DataIndex(pb, identifier)] = SetHasConvolution(@, bakeConvolution)]

\* Lines 113-116: update the capability flags of the identifier's store.
UpdateFlags(pb, identifier, bakeConvolution, bakeParametric) ==
    [pb EXCEPT !.data[DataIndex(pb, identifier)] =
        SetHasParametric(SetHasConvolution(@, bakeConvolution), bakeParametric)]

\* Mutant of ProbeValid: endpointInfluence is not consulted.
ProbeValidAlways(identifier, i) == TRUE

\* Lines 134-157: eligibility of probe i and the endpoints it is given.
ProbeValid(identifier, i) ==
    CASE identifier.variation = "Reverb" -> TRUE
      [] identifier.variation = "StaticSource" -> Contains(identifier.endpointInfluence, i)
      [] identifier.variation = "StaticListener" -> Contains(identifier.endpointInfluence, i)
      [] OTHER -> FALSE

SourceOf(identifier, i) ==
    CASE identifier.variation = "Reverb" -> ProbeCenter(i)
      [] identifier.variation = "StaticSource" -> EndpointCenter
      [] OTHER -> ProbeCenter(i)

\* Mutant of ListenerOf: the listener is always the identifier's endpoint.
ListenerOfEndpoint(identifier, i) == EndpointCenter

ListenerOf(identifier, i) ==
    CASE identifier.variation = "Reverb" -> ProbeCenter(i)
      [] identifier.variation = "StaticSource" -> ProbeCenter(i)
      [] OTHER -> EndpointCenter

\* Mutant of BatchCloses: any batch with a probe in it is dispatched.
BatchClosesNonEmpty(numValidInBatch, bakeBatchSize, i, numProbes) ==
    numValidInBatch >= 1 \/ i = numProbes - 1

\* Line 168: the batch is dispatched when it is full or at the last probe.
BatchCloses(numValidInBatch, bakeBatchSize, i, numProbes) ==
    numValidInBatch = bakeBatchSize \/ i = numProbes - 1

\* Lines 170-192: endpoint counts handed to the simulator.
NumSources(sceneType, variation, numValidInBatch) ==
    IF sceneType = "RadeonRays" /\ variation = "StaticSource"
    THEN 1
    ELSE numValidInBatch

\* Mutant of NumListeners: the default of one listener is never overridden.
NumListenersDefault(sceneType, variation, numValidInBatch) == 1

NumListeners(sceneType, variation, numValidInBatch) ==
    IF sceneType = "RadeonRays" /\ variation \in {"StaticSource", "Reverb"}
    THEN numValidInBatch
    ELSE 1

\* Mutant of ProgressValue: the probe just examined is not counted.
ProgressValueBeforeIncrement(i, numProbes) == [num |-> i, den |-> numProbes]

\* Line 251: (i + 1.0f) / probeBatch.numProbes(), kept as an exact fraction.
ProgressValue(i, numProbes) == [num |-> i + 1, den |-> numProbes]

\* Mutant of CancelObserved: the flag is never seen as set.
CancelObservedNever(cancelFlag) == FALSE

\* Line 254: the bake stops when the cancellation flag is read as set.
CancelObserved(cancelFlag) == cancelFlag

\* Mutant of CancelApplies: cancel() does not test the in-progress flag.
CancelAppliesAlways(inProgress) == TRUE

\* Line 267: cancel() requests cancellation only if a bake is in progress.
CancelApplies(inProgress) == inProgress

\* Line 130 and the ++i of the loop: where the loop goes from probe i.
NextProbePc(i, numProbes) == IF i + 1 < numProbes THEN "select" ELSE "exit"

\* Lines 211, 222, 247: the stage that follows the device-to-host copy, the
\* parametric pass and the convolution pass of a batch.
AfterParametric(args, numValidInBatch) ==
    IF args.bakeConvolution /\ numValidInBatch > 0 THEN "conv" ELSE "check"

AfterCopy(args, numValidInBatch) ==
    IF args.bakeParametric /\ numValidInBatch > 0
    THEN "param"
    ELSE AfterParametric(args, numValidInBatch)

\* Mutant of AfterSimulate: post-processing starts without the copy.
AfterSimulateNoCopy(args, numValidInBatch) == AfterCopy(args, numValidInBatch)

AfterSimulate(args, numValidInBatch) ==
    IF args.sceneType = "RadeonRays" THEN "copy" ELSE AfterCopy(args, numValidInBatch)

\* Mutant of WriteIndex: the position in the batch is used as store index.
WriteIndexInBatch(indices, j) == j

\* Lines 218, 238, 242: the store index of batch slot j is indices[j], the
\* probe's index in the full probe list.
WriteIndex(indices, j) == indices[j]

\* Mutant of ConvolutionField: the simulated field is always moved.
ConvolutionFieldMoved(slotField, simDuration, bakeDuration, index) == slotField

\* Lines 226-236: the field stored for a slot: the simulated field itself
\* when the durations agree, else a new field of bakeDuration filled from it.
ConvolutionField(slotField, simDuration, bakeDuration, index) ==
    IF simDuration = bakeDuration
    THEN slotField
    ELSE CopyFrom(MakeEnergyField(bakeDuration, index), slotField)

\* Line 230: std::move leaves the batch slot empty.
SlotAfterStore(slotField, simDuration, bakeDuration) ==
    IF simDuration = bakeDuration THEN NullField ELSE slotField

\* Line 240: energyFields[j]->getImpulseResponse().  Through an empty slot
\* this is a null dereference: the process dies, or goes on with garbage.
DumpOutcomes(slotField) ==
    IF slotField.null THEN {"crash", "garbage"} ELSE {"ok"}

InBake(t) == frame[t].pc # "idle"

SetFrame(t, f) == frame' = [frame EXCEPT ![t] = f]


\* ---------------------------------------------------------------- actions
\* Lines 95-128: entry of bake().  The asserts hold of every planned call;
\* sBakeInProgress is set, the batch size fixed, the store ensured and its
\* flags updated, and the per-batch arrays allocated.
BakeBegin(t) ==
    /\ ~crashed
    /\ frame[t].pc = "idle"
    /\ plan[t] # <<>>
    /\ LET a == Head(plan[t])
           pb == probeBatch[t]
           bs == EffectiveBatchSize(a.sceneType, a.identifier.variation, a.bakeBatchSize)
           pb1 == EnsureData(pb, a.identifier, a.bakeConvolution, a.bakeParametric)
           pb2 == UpdateFlags(pb1, a.identifier, a.bakeConvolution, a.bakeParametric)
       IN /\ sBakeInProgress' = TRUE
          /\ probeBatch' = [probeBatch EXCEPT ![t] = pb2]
          /\ plan' = [plan EXCEPT ![t] = Tail(@)]
          /\ history' = [history EXCEPT ![t] = @ \cup
                {[identifier |-> a.identifier,
                  bakeConvolution |-> a.bakeConvolution,
                  bakeParametric |-> a.bakeParametric]}]
          /\ SetFrame(t,
                [pc |-> IF 0 < pb.numProbes THEN "select" ELSE "exit",
                 args |-> a,
                 bakeBatchSize |-> bs,
                 sources |-> [k \in 0..(bs - 1) |-> UninitPoint],
                 listeners |-> [k \in 0..(bs - 1) |-> UninitPoint],
                 energyFields |-> [k \in 0..(bs - 1) |-> NullField],
                 indices |-> [k \in 0..(bs - 1) |-> 0],
                 numValidInBatch |-> 0, i |-> 0, j |-> 0,
                 simLog |-> <<>>, progressLog |-> <<>>, dumpLog |-> <<>>,
                 writeLog |-> <<>>,
                 entryData |-> DataOf(pb2, a.identifier),
                 outcome |-> "running", req |-> "none"])
    /\ UNCHANGED <<sCancel, cancelPc, cancelsLeft, crashed>>

\* Lines 132-168: examine probe i; an eligible probe takes the next slot of
\* the batch.  The batch is then dispatched or the loop moves on.
SelectProbe(t) ==
    /\ ~crashed
    /\ frame[t].pc = "select"
    /\ LET f == frame[t]
           id == f.args.identifier
           n == f.numValidInBatch
           valid == ProbeValid(id, f.i)
           f1 == IF valid
                 THEN [f EXCEPT !.sources[n] = SourceOf(id, f.i),
                                !.listeners[n] = ListenerOf(id, f.i),
                                !.energyFields[n] =
                                    EnergyFieldFactoryCreate(f.args.sceneType,
                                                             f.args.simDuration, f.i),
                                !.indices[n] = f.i,
                                !.numValidInBatch = n + 1]
                 ELSE f
       IN IF BatchCloses(f1.numValidInBatch, f.bakeBatchSize, f.i, probeBatch[t].numProbes)
          THEN SetFrame(t, [f1 EXCEPT !.pc = "simulate"])
          ELSE SetFrame(t, [f1 EXCEPT !.i = f.i + 1,
                                      !.pc = NextProbePc(f.i, probeBatch[t].numProbes)])
    /\ UNCHANGED <<sCancel, sBakeInProgress, probeBatch, plan, history,
                   cancelPc, cancelsLeft, crashed>>

\* Lines 170-199: choose the endpoint counts, reset the job graph, build it
\* with simulate() and run it to completion with threadPool.process().
SimulateBatch(t) ==
    /\ ~crashed
    /\ frame[t].pc = "simulate"
    /\ LET f == frame[t]
           n == f.numValidInBatch
           v == f.args.identifier.variation
           numSources == NumSources(f.args.sceneType, v, n)
           numListeners == NumListeners(f.args.sceneType, v, n)
       IN SetFrame(t,
            [f EXCEPT !.energyFields = Simulate(f.energyFields, f.sources, f.listeners,
                                                numSources, numListeners,
                                                f.args.simDuration),
                      !.simLog = Append(@, [n |-> n,
                                            at |-> f.i,
                                            numSources |-> numSources,
                                            numListeners |-> numListeners,
                                            indices |-> [k \in 0..(n - 1) |-> f.indices[k]],
                                            sources |-> [k \in 0..(n - 1) |-> f.sources[k]],
                                            listeners |-> [k \in 0..(n - 1) |-> f.listeners[k]]]),
                      !.j = 0,
                      !.pc = AfterSimulate(f.args, n)])
    /\ UNCHANGED <<sCancel, sBakeInProgress, probeBatch, plan, history,
                   cancelPc, cancelsLeft, crashed>>

\* Lines 202-208: on RadeonRays, copy every batch member's field to the host.
CopyBatchToHost(t) ==
    /\ ~crashed
    /\ frame[t].pc = "copy"
    /\ LET f == frame[t]
       IN SetFrame(t,
            [f EXCEPT !.energyFields =
                          [k \in DOMAIN f.energyFields |->
                              IF k < f.numValidInBatch
                              THEN CopyDeviceToHost(f.energyFields[k])
                              ELSE f.energyFields[k]],
                      !.pc = AfterCopy(f.args, f.numValidInBatch)])
    /\ UNCHANGED <<sCancel, sBakeInProgress, probeBatch, plan, history,
                   cancelPc, cancelsLeft, crashed>>

\* Lines 213-219, one iteration j: estimate the reverb of slot j and store it
\* at indices[j].
ParametricStep(t) ==
    /\ ~crashed
    /\ frame[t].pc = "param"
    /\ LET f == frame[t]
           id == f.args.identifier
           reverb == ReverbEstimate(f.energyFields[f.j])
           last == f.j + 1 >= f.numValidInBatch
       IN /\ probeBatch' = [probeBatch EXCEPT ![t].data[DataIndex(probeBatch[t], id)] =
                                SetReverb(@, WriteIndex(f.indices, f.j), reverb)]
          /\ SetFrame(t,
                [f EXCEPT !.writeLog = Append(@, [kind |-> "reverb",
                                                  index |-> WriteIndex(f.indices, f.j),
                                                  slot |-> f.j,
                                                  probe |-> f.indices[f.j]]),
                          !.j = IF last THEN 0 ELSE f.j + 1,
                          !.pc = IF last THEN AfterParametric(f.args, f.numValidInBatch)
                                         ELSE "param"])
    /\ UNCHANGED <<sCancel, sBakeInProgress, plan, history,
                   cancelPc, cancelsLeft, crashed>>


\* Lines 226-238, iteration j: move or copy the slot's field and store it at
\* indices[j].
ConvolutionStep(t) ==
    /\ ~crashed
    /\ frame[t].pc = "conv"
    /\ LET f == frame[t]
           id == f.args.identifier
           index == WriteIndex(f.indices, f.j)
           energyField == ConvolutionField(f.energyFields[f.j], f.args.simDuration,
                                           f.args.bakeDuration, f.indices[f.j])
       IN /\ probeBatch' = [probeBatch EXCEPT ![t].data[DataIndex(probeBatch[t], id)] =
                                SetEnergyField(@, index, energyField)]
          /\ SetFrame(t,
                [f EXCEPT !.energyFields[f.j] =
                              SlotAfterStore(@, f.args.simDuration, f.args.bakeDuration),
                          !.writeLog = Append(@, [kind |-> "field",
                                                  index |-> index,
                                                  slot |-> f.j,
                                                  probe |-> f.indices[f.j]]),
                          !.pc = "dump"])
    /\ UNCHANGED <<sCancel, sBakeInProgress, plan, history,
                   cancelPc, cancelsLeft, crashed>>

\* Lines 240-243, iteration j: read the impulse response through the batch
\* slot and write it to output/impulse_response_<indices[j]>.wav.
DumpStep(t) ==
    /\ ~crashed
    /\ frame[t].pc = "dump"
    /\ LET f == frame[t]
           last == f.j + 1 >= f.numValidInBatch
       IN \E outcome \in DumpOutcomes(f.energyFields[f.j]) :
            IF outcome = "crash"
            THEN /\ crashed' = TRUE
                 /\ UNCHANGED frame
            ELSE /\ crashed' = crashed
                 /\ SetFrame(t,
                       [f EXCEPT !.dumpLog = Append(@, [index |-> WriteIndex(f.indices, f.j),
                                                        read |-> outcome]),
                                 !.j = IF last THEN 0 ELSE f.j + 1,
                                 !.pc = IF last THEN "check" ELSE "conv"])
    /\ UNCHANGED <<sCancel, sBakeInProgress, probeBatch, plan, history,
                   cancelPc, cancelsLeft>>

\* Lines 247-254: close the batch, report progress, read the cancellation flag.
CheckCancel(t) ==
    /\ ~crashed
    /\ frame[t].pc = "check"
    /\ LET f == frame[t]
           numProbes == probeBatch[t].numProbes
           f1 == [f EXCEPT !.numValidInBatch = 0,
                           !.progressLog = IF f.args.hasCallback
                                           THEN Append(@, ProgressValue(f.i, numProbes))
                                           ELSE @,
                           !.req = IF @ = "pending" THEN "observed" ELSE @]
       IN IF CancelObserved(sCancel)
          THEN SetFrame(t, [f1 EXCEPT !.pc = "clear"])
          ELSE SetFrame(t, [f1 EXCEPT !.i = f.i + 1,
                                      !.pc = NextProbePc(f.i, numProbes)])
    /\ UNCHANGED <<sCancel, sBakeInProgress, probeBatch, plan, history,
                   cancelPc, cancelsLeft, crashed>>

\* Mutant of ClearCancel: a cancelled bake puts the store back as it was on
\* entry.
ClearCancelRollback(t) ==
    /\ ~crashed
    /\ frame[t].pc = "clear"
    /\ sCancel' = FALSE
    /\ probeBatch' = [probeBatch EXCEPT
            ![t].data[DataIndex(probeBatch[t], frame[t].args.identifier)] =
                frame[t].entryData]
    /\ SetFrame(t, [frame[t] EXCEPT !.pc = "exit", !.outcome = "cancelled"])
    /\ UNCHANGED <<sBakeInProgress, plan, history, cancelPc, cancelsLeft, crashed>>

\* Lines 256-257: clear the cancellation flag and leave the loop.
ClearCancel(t) ==
    /\ ~crashed
    /\ frame[t].pc = "clear"
    /\ sCancel' = FALSE
    /\ SetFrame(t, [frame[t] EXCEPT !.pc = "exit", !.outcome = "cancelled"])
    /\ UNCHANGED <<sBakeInProgress, probeBatch, plan, history,
                   cancelPc, cancelsLeft, crashed>>

\* Line 262: clear the in-progress flag and return.
BakeEnd(t) ==
    /\ ~crashed
    /\ frame[t].pc = "exit"
    /\ sBakeInProgress' = FALSE
    /\ SetFrame(t, [frame[t] EXCEPT !.pc = "idle",
                                    !.outcome = IF @ = "running" THEN "finished" ELSE @])
    /\ UNCHANGED <<sCancel, probeBatch, plan, history, cancelPc, cancelsLeft, crashed>>

\* Line 267: cancel() tests the in-progress flag and returns if it is clear.
CancelTest ==
    /\ ~crashed
    /\ cancelPc = "idle"
    /\ cancelsLeft > 0
    /\ cancelsLeft' = cancelsLeft - 1
    /\ cancelPc' = IF CancelApplies(sBakeInProgress) THEN "set" ELSE "idle"
    /\ UNCHANGED <<sCancel, sBakeInProgress, probeBatch, plan, frame, history, crashed>>

\* Line 269: cancel() sets the cancellation flag.
CancelSet ==
    /\ ~crashed
    /\ cancelPc = "set"
    /\ sCancel' = TRUE
    /\ cancelPc' = "idle"
    /\ frame' = [t \in Threads |->
                    IF InBake(t) /\ frame[t].req = "none"
                    THEN [frame[t] EXCEPT !.req = "pending"]
                    ELSE frame[t]]
    /\ UNCHANGED <<sBakeInProgress, probeBatch, plan, history, cancelsLeft, crashed>>

Next ==
    \/ \E t \in Threads :
          \/ BakeBegin(t)
          \/ SelectProbe(t)
          \/ SimulateBatch(t)
          \/ CopyBatchToHost(t)
          \/ ParametricStep(t)
          \/ ConvolutionStep(t)
          \/ DumpStep(t)
          \/ CheckCancel(t)
          \/ ClearCancel(t)
          \/ BakeEnd(t)
    \/ CancelTest
    \/ CancelSet

\* ---------------------------------------------------------- specifications
\* Thread 1 bakes into a batch of numProbes probes, making the calls of
\* calls in order; thread 2 makes no call.
InitOneCaller(numProbes, calls) ==
    /\ InitShared
    /\ probeBatch = [t \in Threads |-> EmptyProbeBatch(IF t = 1 THEN numProbes ELSE 0)]
    /\ plan = [t \in Threads |-> IF t = 1 THEN calls ELSE <<>>]

\* One bake() call with any arguments, on a batch of up to MaxProbes probes
\* or as in the scenario, while another thread calls cancel().
Init ==
    \/ \E numProbes \in 0..MaxProbes :
          \E a \in BakeArgs(numProbes, 1..MaxBatchSize, 1..MaxDuration, BOOLEAN) :
             InitOneCaller(numProbes, <<a>>)
    \/ InitOneCaller(ScenarioProbes, <<ScenarioArgs>>)

Spec == Init /\ [][Next]_vars

\* Up to MaxBakes successive bake() calls by one thread on the same batch of
\* SeqProbes probes, with any outputs and two identifiers, all on the one
\* scene and simulator (one backend) the caller holds.
SeqProbes == 2

SeqArgs ==
    {a \in BakeArgs(SeqProbes, {SeqProbes}, {1}, {TRUE}) :
        a.identifier \in {[variation |-> "Reverb", endpointInfluence |-> {}],
                          [variation |-> "StaticListener", endpointInfluence |-> {0}]}}

InitSeq ==
    \E n \in 1..MaxBakes :
       \E sceneType \in SceneTypes :
          \E calls \in [1..n -> {a \in SeqArgs : a.sceneType = sceneType}] :
             InitOneCaller(SeqProbes, calls)

SpecSeq == InitSeq /\ [][Next]_vars

\* Two threads call bake() concurrently, each once and on its own batch of
\* one probe, while a third thread calls cancel().
ConcArgs ==
    {a \in BakeArgs(1, {1}, {1}, {FALSE}) : a.identifier.variation = "Reverb"}

InitConc ==
    /\ InitShared
    /\ probeBatch = [t \in Threads |-> EmptyProbeBatch(1)]
    /\ plan \in [Threads -> {<<a>> : a \in ConcArgs}]

SpecConc == InitConc /\ [][Next]_vars


\* ------------------------------------------------------------- properties
Called(t) == frame[t].outcome # "none"

NumProbes(t) == probeBatch[t].numProbes

Store(t) == DataOf(probeBatch[t], frame[t].args.identifier)

OnCpu(t) == frame[t].args.sceneType # "RadeonRays"

BatchSizes(t) == [k \in 1..Len(frame[t].simLog) |-> frame[t].simLog[k].n]

Writes(t, kind, p) ==
    {w \in 1..Len(frame[t].writeLog) :
        frame[t].writeLog[w].kind = kind /\ frame[t].writeLog[w].index = p}

RequestedKinds(t) ==
    (IF frame[t].args.bakeParametric THEN {"reverb"} ELSE {})
    \cup (IF frame[t].args.bakeConvolution THEN {"field"} ELSE {})

\* No batch of thread t is between its dispatch and the end of its write-back.
NoBatchInFlight(t) == frame[t].pc \notin {"copy", "param", "conv", "dump"}

\* C1: on the CPU backend with variation Reverb or StaticSource, every
\* simulator invocation of bake() processes exactly one eligible probe.
C1_OneProbePerInvocation ==
    \A t \in Threads :
        (Called(t) /\ OnCpu(t)
            /\ frame[t].args.identifier.variation \in {"Reverb", "StaticSource"})
        => \A k \in 1..Len(frame[t].simLog) : frame[t].simLog[k].n = 1

\* The scenario's bake has returned without being cancelled.
ScenarioFinished(t) ==
    /\ frame[t].args = ScenarioArgs
    /\ NumProbes(t) = ScenarioProbes
    /\ frame[t].outcome = "finished"

\* C2 as stated: the scenario's bake makes exactly 3 simulator calls, of 4, 4
\* and 2 probes, and every probe ends with a Reverb.
C2_ScenarioThreeCalls ==
    \A t \in Threads :
        ScenarioFinished(t)
        => /\ BatchSizes(t) = <<4, 4, 2>>
           /\ \A p \in 0..(NumProbes(t) - 1) : Store(t).reverbs[p].set

\* C2 amended: the scenario's bake, when not cancelled, makes one simulator
\* call per probe, each of exactly one probe and in probe order, and every
\* probe ends with a Reverb.
C2_ScenarioOneCallPerProbe ==
    \A t \in Threads :
        ScenarioFinished(t)
        => /\ Len(frame[t].simLog) = ScenarioProbes
           /\ \A k \in 1..Len(frame[t].simLog) :
                 /\ frame[t].simLog[k].n = 1
                 /\ frame[t].simLog[k].indices[0] = k - 1
           /\ \A p \in 0..(NumProbes(t) - 1) : Store(t).reverbs[p].set

C2_Witness == \E t \in Threads : ScenarioFinished(t)

C4_OutsideUntouched ==
    \A t \in Threads :
        (Called(t) /\ frame[t].args.identifier.variation \in {"StaticSource", "StaticListener"})
        => LET region == frame[t].args.identifier.endpointInfluence
           IN /\ \A w \in 1..Len(frame[t].writeLog) :
                    Contains(region, frame[t].writeLog[w].index)
              /\ \A p \in 0..(NumProbes(t) - 1) :
                    ~Contains(region, p)
                    => /\ Store(t).reverbs[p] = frame[t].entryData.reverbs[p]
                       /\ Store(t).fields[p] = frame[t].entryData.fields[p]

\* A static bake has returned having written some probe and skipped another.
C4_Witness ==
    \E t \in Threads :
        /\ frame[t].outcome = "finished"
        /\ frame[t].args.identifier.variation \in {"StaticSource", "StaticListener"}
        /\ frame[t].writeLog # <<>>
        /\ \E p \in 0..(NumProbes(t) - 1) :
              ~Contains(frame[t].args.identifier.endpointInfluence, p)

\* C5: once cancel() has set the flag during a bake and the bake has made
\* its next batch-boundary check, the bake is past its loop and starts no
\* further simulator invocation: all it has left is to clear the flag and to
\* clear the in-progress flag, neither of which can block, and to return.
C5_StopsAtNextBoundary ==
    \A t \in Threads :
        frame[t].req = "observed"
        => /\ frame[t].pc \in {"clear", "exit", "idle"}
           /\ frame[t].pc = "clear" => ENABLED ClearCancel(t)
           /\ frame[t].pc = "exit" => ENABLED BakeEnd(t)

\* A bake has returned on a cancel request with probes still to examine.
C5_Witness ==
    \E t \in Threads :
        /\ frame[t].req = "observed"
        /\ frame[t].pc = "idle"
        /\ frame[t].outcome = "cancelled"
        /\ frame[t].i + 1 < NumProbes(t)

\* C6: a cancel() call made while no bake is in progress changes nothing but
\* the caller's own position: both flags, every batch, every pending call and
\* every thread's bake state are as before and cancel() has returned, so the
\* bake that follows starts from the state it would have started from.
C6_IdleCancelNoEffect ==
    [][(cancelsLeft' # cancelsLeft /\ \A t \in Threads : ~InBake(t))
          => /\ sCancel' = sCancel
             /\ sBakeInProgress' = sBakeInProgress
             /\ cancelPc' = "idle"
             /\ UNCHANGED <<probeBatch, plan, frame, history, crashed>>]_vars

\* cancel() has been called and has returned between two bakes, the flag is
\* clear and the second bake is still to come.
C6_Witness ==
    \E t \in Threads :
        /\ frame[t].pc = "idle"
        /\ frame[t].outcome = "finished"
        /\ frame[t].req = "none"
        /\ plan[t] # <<>>
        /\ cancelsLeft < MaxCancels
        /\ cancelPc = "idle"
        /\ ~sCancel

\* C7: no two bake() calls are at once between setting the in-progress flag
\* and clearing it.
C7_OneBakeInProgress == ~(InBake(1) /\ InBake(2))

\* C8: with a progress callback, the k-th value reported is (index of the
\* probe at which the k-th batch closed + 1) / numProbes, the values never
\* decrease, and a bake of at least one probe that returns uncancelled has
\* reported 1.0 last.
C8_Progress ==
    \A t \in Threads :
        (Called(t) /\ frame[t].args.hasCallback)
        => LET p == frame[t].progressLog
           IN /\ Len(p) <= Len(frame[t].simLog)
              /\ \A k \in 1..Len(p) :
                    p[k] = [num |-> frame[t].simLog[k].at + 1, den |-> NumProbes(t)]
              /\ \A k \in 1..(Len(p) - 1) :
                    p[k].num * p[k + 1].den <= p[k + 1].num * p[k].den
              /\ (frame[t].outcome = "finished" /\ NumProbes(t) >= 1)
                    => /\ Len(p) >= 1
                       /\ p[Len(p)].num = p[Len(p)].den

\* An uncancelled bake has reported progress at least twice.
C8_Witness ==
    \E t \in Threads :
        /\ frame[t].args.hasCallback
        /\ frame[t].outcome = "finished"
        /\ Len(frame[t].progressLog) >= 2

\* C9: every write-back of a bake goes to the store index of the probe the
\* slot was filled for (the data stored at index p was simulated with probe
\* p's center as an endpoint), no index is written twice for one output, and
\* once a batch's write-back is over each probe dispatched so far has been
\* written exactly once per requested output.
C9_WriteBackOnce ==
    \A t \in Threads :
        Called(t)
        => LET f == frame[t]
           IN /\ \A w \in 1..Len(f.writeLog) :
                    LET p == f.writeLog[w].index
                    IN /\ p = f.writeLog[w].probe
                       /\ \E k \in 1..Len(f.simLog) :
                             \E s \in 0..(f.simLog[k].n - 1) : f.simLog[k].indices[s] = p
                       /\ f.writeLog[w].kind = "reverb"
                             => ProbeCenter(p) \in {Store(t).reverbs[p].src,
                                                    Store(t).reverbs[p].lst}
                       /\ f.writeLog[w].kind = "field"
                             => ProbeCenter(p) \in {Store(t).fields[p].host.src,
                                                    Store(t).fields[p].host.lst}
              /\ \A kind \in {"reverb", "field"} :
                    \A p \in 0..(NumProbes(t) - 1) : Cardinality(Writes(t, kind, p)) <= 1
              /\ NoBatchInFlight(t)
                    => \A k \in 1..Len(f.simLog) :
                          \A s \in 0..(f.simLog[k].n - 1) :
                             \A kind \in RequestedKinds(t) :
                                Cardinality(Writes(t, kind, f.simLog[k].indices[s])) = 1

\* A bake has returned after writing a probe whose index differs from its
\* slot in the batch, with both outputs requested.
C9_Witness ==
    \E t \in Threads :
        /\ frame[t].outcome = "finished"
        /\ frame[t].args.bakeConvolution
        /\ frame[t].args.bakeParametric
        /\ \E w \in 1..Len(frame[t].writeLog) :
              frame[t].writeLog[w].index # frame[t].writeLog[w].slot

\* What the simulator produces for probe p under the arguments of thread t.
SimulatedFor(t, p) ==
    [src |-> SourceOf(frame[t].args.identifier, p),
     lst |-> ListenerOf(frame[t].args.identifier, p),
     bins |-> frame[t].args.simDuration]

\* C10: in a convolution bake, if simDuration = bakeDuration the field
\* stored for a probe is the field the factory made for it, holding what was
\* simulated, and the batch slot has given it up; otherwise the stored field
\* is a new one of duration bakeDuration filled from the simulated field,
\* which stays in the batch slot.
C10_DurationLaw ==
    \A t \in Threads :
        (Called(t) /\ frame[t].args.bakeConvolution)
        => LET f == frame[t]
               same == f.args.simDuration = f.args.bakeDuration
           IN /\ \A w \in 1..Len(f.writeLog) :
                    f.writeLog[w].kind = "field"
                    => LET p == f.writeLog[w].index
                           stored == Store(t).fields[p]
                       IN IF same
                          THEN /\ stored.alloc = "factory"
                               /\ stored.tag = p
                               /\ stored.duration = f.args.simDuration
                               /\ stored.host = SimulatedFor(t, p)
                          ELSE /\ stored.alloc = "bake"
                               /\ stored.tag = p
                               /\ stored.duration = f.args.bakeDuration
                               /\ stored.host =
                                    [SimulatedFor(t, p) EXCEPT !.bins =
                                        Min(f.args.simDuration, f.args.bakeDuration)]
              /\ f.pc = "dump"
                    => IF same
                       THEN f.energyFields[f.j] = NullField
                       ELSE /\ ~f.energyFields[f.j].null
                            /\ f.energyFields[f.j].alloc = "factory"
                            /\ f.energyFields[f.j].duration = f.args.simDuration
                            /\ f.energyFields[f.j] # Store(t).fields[f.indices[f.j]]

\* A convolution bake with differing durations has stored a field and the
\* slot still holds the simulated one.
C10_Witness ==
    \E t \in Threads :
        /\ frame[t].args.bakeConvolution
        /\ frame[t].args.simDuration > frame[t].args.bakeDuration
        /\ frame[t].pc = "dump"
        /\ frame[t].j >= 1

\* A convolution bake with equal durations has moved a field into the store.
C10_WitnessMoved ==
    \E t \in Threads :
        /\ frame[t].args.bakeConvolution
        /\ frame[t].args.simDuration = frame[t].args.bakeDuration
        /\ frame[t].pc = "dump"
        /\ ~crashed


\* C11: a Reverb bake with parametric output that returns uncancelled has
\* written a Reverb for every probe, exactly once, and the simulator call
\* that produced it was given the probe's own center both as the source and
\* as the listener of the probe's slot; the stored Reverb was estimated from
\* that pair.
C11_ReverbOwnCenter ==
    \A t \in Threads :
        (frame[t].outcome = "finished"
            /\ frame[t].args.identifier.variation = "Reverb"
            /\ frame[t].args.bakeParametric)
        => \A p \in 0..(NumProbes(t) - 1) :
              /\ Cardinality(Writes(t, "reverb", p)) = 1
              /\ \E k \in 1..Len(frame[t].simLog) :
                    LET call == frame[t].simLog[k]
                    IN \E s \in 0..(call.n - 1) :
                          /\ call.indices[s] = p
                          /\ s < call.numSources
                          /\ s < call.numListeners
                          /\ call.sources[s] = ProbeCenter(p)
                          /\ call.listeners[s] = ProbeCenter(p)
              /\ Store(t).reverbs[p] =
                    [set |-> TRUE, src |-> ProbeCenter(p), lst |-> ProbeCenter(p),
                     bins |-> frame[t].args.simDuration]

\* A Reverb bake on RadeonRays has returned after a batch of two probes.
C11_Witness ==
    \E t \in Threads :
        /\ frame[t].outcome = "finished"
        /\ frame[t].args.identifier.variation = "Reverb"
        /\ frame[t].args.bakeParametric
        /\ ~OnCpu(t)
        /\ NumProbes(t) >= 3
        /\ \E k \in 1..Len(frame[t].simLog) : frame[t].simLog[k].n >= 2


\* C12: a bake that stopped on cancellation at the boundary of the batch
\* closed at probe k has written every eligible probe up to k once per
\* requested output, and the store holds that data; every probe after k has
\* not been written and its stored data is as it was on entry.
C12_CancelKeepsWritten ==
    \A t \in Threads :
        frame[t].outcome = "cancelled"
        => LET f == frame[t]
               k == f.i
           IN \A p \in 0..(NumProbes(t) - 1) :
                 /\ (p <= k /\ ProbeValid(f.args.identifier, p))
                       => /\ \A kind \in RequestedKinds(t) :
                                Cardinality(Writes(t, kind, p)) = 1
                          /\ f.args.bakeParametric
                                => Store(t).reverbs[p] =
                                      [set |-> TRUE,
                                       src |-> SourceOf(f.args.identifier, p),
                                       lst |-> ListenerOf(f.args.identifier, p),
                                       bins |-> f.args.simDuration]
                          /\ f.args.bakeConvolution
                                => /\ ~Store(t).fields[p].null
                                   /\ Store(t).fields[p].tag = p
                                   /\ Store(t).fields[p].host.src =
                                         SourceOf(f.args.identifier, p)
                                   /\ Store(t).fields[p].host.lst =
                                         ListenerOf(f.args.identifier, p)
                 /\ p > k
                       => /\ Writes(t, "reverb", p) = {}
                          /\ Writes(t, "field", p) = {}
                          /\ Store(t).reverbs[p] = f.entryData.reverbs[p]
                          /\ Store(t).fields[p] = f.entryData.fields[p]

\* A second bake of an identifier was cancelled after its first batch: the
\* first probe was written by it and the next still holds the Reverb the
\* earlier bake stored.
C12_Witness ==
    \E t \in Threads :
        /\ frame[t].outcome = "cancelled"
        /\ frame[t].pc = "idle"
        /\ frame[t].i + 1 < NumProbes(t)
        /\ frame[t].writeLog # <<>>
        /\ frame[t].entryData.reverbs[frame[t].i + 1].set
        /\ Store(t).reverbs[frame[t].i + 1].set


\* The stores of thread t's batch: one per identifier baked so far and no
\* other, each sized to the batch's probe count.
OneStorePerIdentifier(t) ==
    LET data == probeBatch[t].data
    IN /\ \A k1, k2 \in 1..Len(data) :
             data[k1].identifier = data[k2].identifier => k1 = k2
       /\ {data[k].identifier : k \in 1..Len(data)} = {h.identifier : h \in history[t]}
       /\ \A k \in 1..Len(data) :
             /\ DOMAIN data[k].reverbs = 0..(NumProbes(t) - 1)
             /\ DOMAIN data[k].fields = 0..(NumProbes(t) - 1)

\* A step keeps every store of thread t's batch in its place, and changes a
\* probe's stored Reverb or Energy Field only by a write-back, logged in the
\* step, of the running bake to that probe of its own identifier's store.
StoresMutatedInPlace(t) ==
    LET data == probeBatch[t].data
        last == frame'[t].writeLog[Len(frame'[t].writeLog)]
        wrote(kind, k, p) ==
            /\ Len(frame'[t].writeLog) = Len(frame[t].writeLog) + 1
            /\ last.kind = kind
            /\ last.index = p
            /\ data[k].identifier = frame[t].args.identifier
    IN /\ Len(probeBatch'[t].data) >= Len(data)
       /\ \A k \in 1..Len(data) :
             /\ probeBatch'[t].data[k].identifier = data[k].identifier
             /\ \A p \in 0..(NumProbes(t) - 1) :
                   /\ probeBatch'[t].data[k].reverbs[p] # data[k].reverbs[p]
                         => wrote("reverb", k, p)
                   /\ probeBatch'[t].data[k].fields[p] # data[k].fields[p]
                         => wrote("field", k, p)

\* C13: after any sequence of bakes on a batch there is exactly one store per
\* identifier baked, created sized to the probe count; a store once created
\* stays, and its per-probe data changes only where a bake writes back, so
\* data of an earlier bake that a later one does not rewrite is still there.
C13_OneStoreMutatedInPlace ==
    /\ [](\A t \in Threads : OneStorePerIdentifier(t))
    /\ [][\A t \in Threads : StoresMutatedInPlace(t)]_vars

\* A convolution-only bake has returned on a store whose Reverbs an earlier
\* bake of the same identifier wrote: the probe holds both.
C13_Witness ==
    \E t \in Threads :
        /\ frame[t].outcome = "finished"
        /\ ~frame[t].args.bakeParametric
        /\ frame[t].writeLog # <<>>
        /\ Len(probeBatch[t].data) = 1
        /\ \E p \in 0..(NumProbes(t) - 1) :
              Store(t).reverbs[p].set /\ ~Store(t).fields[p].null


\* C14: on RadeonRays, or with variation StaticListener, the requested batch
\* size is kept; every simulator invocation processes at most bakeBatchSize
\* eligible probes, is made with a full batch or at the last probe of the
\* list, and every invocation but the last made processes exactly
\* bakeBatchSize.
C14_BatchesOfRequestedSize ==
    \A t \in Threads :
        (Called(t)
            /\ (~OnCpu(t) \/ frame[t].args.identifier.variation = "StaticListener"))
        => LET f == frame[t]
               size == f.args.bakeBatchSize
           IN /\ f.bakeBatchSize = size
              /\ f.numValidInBatch <= size
              /\ \A k \in 1..Len(f.simLog) :
                    /\ f.simLog[k].n <= size
                    /\ f.simLog[k].n = size \/ f.simLog[k].at = NumProbes(t) - 1
                    /\ k < Len(f.simLog) => f.simLog[k].n = size

\* A bake has returned after a full batch of two probes and a last, partial one.
C14_Witness ==
    \E t \in Threads :
        /\ frame[t].outcome = "finished"
        /\ ~OnCpu(t) \/ frame[t].args.identifier.variation = "StaticListener"
        /\ frame[t].args.bakeBatchSize >= 2
        /\ Len(frame[t].simLog) = 2
        /\ frame[t].simLog[1].n = frame[t].args.bakeBatchSize
        /\ frame[t].simLog[2].n = 1

\* C15: with n the eligible probes of the batch, each simulator invocation
\* is given (numSources, numListeners) = (n, 1) on the CPU backend, and on
\* RadeonRays (1, n) for StaticSource, (n, 1) for StaticListener and (n, n)
\* for Reverb.
C15_EndpointCounts ==
    \A t \in Threads :
        Called(t)
        => \A k \in 1..Len(frame[t].simLog) :
              LET call == frame[t].simLog[k]
                  v == frame[t].args.identifier.variation
                  counts == <<call.numSources, call.numListeners>>
              IN IF OnCpu(t)
                 THEN counts = <<call.n, 1>>
                 ELSE /\ v = "StaticSource" => counts = <<1, call.n>>
                      /\ v = "StaticListener" => counts = <<call.n, 1>>
                      /\ v = "Reverb" => counts = <<call.n, call.n>>

\* RadeonRays invocations of two probes have been made for a variation whose
\* listener count is the batch count.
C15_Witness ==
    \E t \in Threads :
        /\ ~OnCpu(t)
        /\ frame[t].args.identifier.variation \in {"StaticSource", "Reverb"}
        /\ \E k \in 1..Len(frame[t].simLog) :
              frame[t].simLog[k].n = 2 /\ frame[t].simLog[k].numListeners = 2


\* C16: on RadeonRays, when process() has returned the batch's results are on
\* the device and not yet on the host, and whenever the batch is in reverb
\* estimation, field copy or transfer, or impulse-response dump, every field
\* still in a slot has had its device content copied to the host; on the CPU
\* backend the copy step is never taken and no field has device content.
C16_CopyBeforePostProcessing ==
    \A t \in Threads :
        Called(t)
        => LET f == frame[t]
               slots == 0..(f.numValidInBatch - 1)
           IN IF OnCpu(t)
              THEN /\ f.pc # "copy"
                   /\ \A s \in DOMAIN f.energyFields :
                         ~f.energyFields[s].null
                         => /\ ~f.energyFields[s].onDevice
                            /\ f.energyFields[s].dev = EmptyContent
              ELSE /\ f.pc = "copy"
                         => \A s \in slots :
                               /\ f.energyFields[s].dev = SimulatedFor(t, f.indices[s])
                               /\ f.energyFields[s].host = EmptyContent
                   /\ f.pc \in {"param", "conv", "dump"}
                         => \A s \in slots :
                               ~f.energyFields[s].null
                               => /\ f.energyFields[s].host = f.energyFields[s].dev
                                  /\ f.energyFields[s].host = SimulatedFor(t, f.indices[s])

\* A RadeonRays batch of two probes is in reverb estimation, at its second slot.
C16_Witness ==
    \E t \in Threads :
        /\ ~OnCpu(t)
        /\ frame[t].pc = "param"
        /\ frame[t].numValidInBatch >= 2
        /\ frame[t].j = 1


\* C17: the impulse-response dump of a slot reads a field the slot still
\* owns: whenever a bake is about to read energyFields[j] for the dump, the
\* slot is not empty.
C17_DumpReadsOwnedField ==
    \A t \in Threads :
        frame[t].pc = "dump" => ~frame[t].energyFields[frame[t].j].null

\* C18: whenever a bake() call is entered the cancellation flag is false.
C18_NoCancelAtEntry ==
    [][\A t \in Threads :
          (frame[t].pc = "idle" /\ frame'[t].pc # "idle") => ~sCancel]_vars

\* C19: every simulator invocation is given at least one eligible probe, so
\* neither endpoint count is 0.
C19_NoEmptyInvocation ==
    \A t \in Threads :
        \A k \in 1..Len(frame[t].simLog) :
            /\ frame[t].simLog[k].n >= 1
            /\ frame[t].simLog[k].numSources >= 1
            /\ frame[t].simLog[k].numListeners >= 1

\* C20: the in-progress flag is true in every state in which some bake() call
\* is between its entry and its clearing of the flag.
C20_FlagCoversRunningBakes ==
    (\E t \in Threads : InBake(t)) => sBakeInProgress

====
